---- MODULE Spec2Model ----
(***************************************************************************)
(* Model of falcore's Server (src/server.go): the accept loop serve(),     *)
(* the shutdown request StopAccepting(), and one handler goroutine per     *)
(* accepted connection with its keep-alive request/response loop and its   *)
(* deferred connectionFinished(); the bootstrap calls FdListen,            *)
(* ListenAndServe and ListenAndServeTLS; the stage-timing records of a     *)
(* request and the completion callback of the pipeline.                    *)
(*                                                                         *)
(* Goroutines are interleaved at the granularity of the blocking calls     *)
(* and of the operations on shared state: channel operations, Accept,      *)
(* WaitGroup Add/Done/Wait, ReadRequest, Pipeline.execute, the response    *)
(* write and Conn.Close.                                                   *)
(***************************************************************************)
EXTENDS Integers, Sequences, FiniteSets

\* Number of connections the listener delivers during one run.
MaxConns == 2
\* Number of "Connection: Keep-Alive" requests the peers send during one run.
MaxKeepAlive == 1
\* Number of StopAccepting() calls made by the owning process.
MaxStopCalls == 2
\* Last value of the clock time.Nanoseconds(), which starts at 0.
MaxTime == 3
\* Number of stages the pipeline runs for one request.
MaxStages == 1

Conns == 1..MaxConns

\* Capacity of the AcceptReady channel: make(chan int, 1).
AcceptReadyCap == 1

VARIABLES
    srvPc,              \* position of serve()
    accept,             \* serve: var accept
    c,                  \* serve: var c net.Conn of the current iteration (0 = nil)
    accepted,           \* connections the listener has handed out so far
    AcceptReady,        \* number of values buffered in srv.AcceptReady
    srvLog,             \* serve: the Error() line of the current iteration
    ret,                \* what serve() returned ("none" while it runs)
    listener,           \* srv.listener
    listenerFile,       \* srv.listenerFile
    bootErr,            \* result of the last FdListen / ListenAndServe(TLS) call
    now,                \* time.Nanoseconds()
    RequestDoneCallback, \* srv.Pipeline.RequestDoneCallback != nil
    cbRunning,          \* callback goroutines started and not finished
    stopAccepting,      \* callers blocked in the send on srv.stopAccepting
    stopReturned,       \* StopAccepting() calls that have returned
    handlerWaitGroup,   \* counter of srv.handlerWaitGroup
    hpc,                \* per connection: position of its handler goroutine
    err,                \* handler: var err
    keepAlive,          \* handler: var keepAlive
    reqCount,           \* handler: var reqCount
    res,                \* handler: var res of the current iteration
    pipeRes,            \* what Pipeline.execute returned in the current iteration
    written,            \* the response written in the current iteration
    reads,              \* per connection: results of the ReadRequest calls
    nExec,              \* per connection: number of Pipeline.execute calls
    nWrite,             \* per connection: number of responses written
    closes,             \* per connection: number of Close() calls
    wgAdds,             \* per connection: Add(1) calls made for it
    wgDones,            \* per connection: Done() calls made by its handler
    errLog,             \* per connection: Error() lines logged by its handler
    startTime,          \* handler: startTime
    reqStart,           \* start timestamp given to newRequest in the current iteration
    stages,             \* stage-timing sequence of the current request context
    cbDispatched        \* per connection: callbacks its handler has dispatched

bootVars == <<listener, listenerFile, bootErr>>
srvVars == <<srvPc, accept, c, accepted, AcceptReady, srvLog, ret, bootVars>>
envVars == <<now, RequestDoneCallback, cbRunning>>
stopVars == <<stopAccepting, stopReturned>>
locVars == <<err, keepAlive, reqCount>>
iterVars == <<res, pipeRes, written>>
obsVars == <<reads, nExec, nWrite, closes, wgDones, errLog>>
ctxVars == <<startTime, reqStart, stages, cbDispatched>>
connVars == <<hpc, locVars, iterVars, obsVars, ctxVars>>
vars == <<srvVars, stopVars, envVars, handlerWaitGroup, wgAdds, connVars>>

\* The locals of one loop iteration (res, and what was executed and written
\* for its request) exist from ReadRequest to the end of the iteration; they
\* hold "none" outside it and before they are assigned.

\* srv.listener: nil, or a listener described by what it wraps ("tcp", or
\* "other" for a listener that is no *net.TCPListener), whether the 3 s accept
\* timeout has been set on it and whether it is wrapped by tls.NewListener.
NoListener == [base |-> "nil", timeout |-> FALSE, tls |-> FALSE]
ReadyListener == [base |-> "tcp", timeout |-> TRUE, tls |-> FALSE]

\* What NewServer builds (lines 29-38): unbuffered stopAccepting with no
\* sender, empty AcceptReady, WaitGroup at zero; no connection yet.
NewServer ==
    /\ c = 0
    /\ accepted = 0
    /\ AcceptReady = 0
    /\ srvLog = "none"
    /\ ret = "none"
    /\ now = 0
    /\ cbRunning = 0
    /\ stopAccepting = 0
    /\ stopReturned = 0
    /\ handlerWaitGroup = 0
    /\ hpc = [k \in Conns |-> "none"]
    /\ err = [k \in Conns |-> "nil"]
    /\ keepAlive = [k \in Conns |-> TRUE]
    /\ reqCount = [k \in Conns |-> 0]
    /\ res = [k \in Conns |-> "none"]
    /\ pipeRes = [k \in Conns |-> "none"]
    /\ written = [k \in Conns |-> "none"]
    /\ reads = [k \in Conns |-> <<>>]
    /\ nExec = [k \in Conns |-> 0]
    /\ nWrite = [k \in Conns |-> 0]
    /\ closes = [k \in Conns |-> 0]
    /\ wgAdds = [k \in Conns |-> 0]
    /\ wgDones = [k \in Conns |-> 0]
    /\ errLog = [k \in Conns |-> <<>>]
    /\ startTime = [k \in Conns |-> 0]
    /\ reqStart = [k \in Conns |-> 0]
    /\ stages = [k \in Conns |-> <<>>]
    /\ cbDispatched = [k \in Conns |-> 0]

\* serve() has just been entered (line 136) by a ListenAndServe call on a
\* server built by NewServer whose listener is ready and whose pipeline has
\* no completion callback.
Init ==
    /\ NewServer
    /\ srvPc = "ready"
    /\ accept = TRUE
    /\ listener = ReadyListener
    /\ listenerFile = "file"
    /\ bootErr = "none"
    /\ RequestDoneCallback = FALSE

(***************************************************************************)
(* The accept loop: Server.serve, lines 135-164.                          *)
(***************************************************************************)

\* Line 137: srv.AcceptReady <- 1, a send on a channel of capacity one. It
\* completes when the buffer has room.
ServeReady ==
    /\ srvPc = "ready"
    /\ AcceptReady < AcceptReadyCap
    /\ AcceptReady' = AcceptReady + 1
    /\ srvPc' = "accept"
    /\ UNCHANGED <<accept, c, accepted, srvLog, stopVars, handlerWaitGroup, wgAdds,
                   connVars, ret, bootVars, envVars>>

\* Lines 140-141, 149-151: Accept returns the next connection with a nil
\* error, and the WaitGroup is incremented for it.
AcceptConn ==
    /\ srvPc = "accept"
    /\ accepted < MaxConns
    /\ accepted' = accepted + 1
    /\ c' = accepted + 1
    /\ handlerWaitGroup' = handlerWaitGroup + 1
    /\ wgAdds' = [wgAdds EXCEPT ![accepted + 1] = @ + 1]
    /\ srvPc' = "go"
    /\ UNCHANGED <<accept, AcceptReady, srvLog, stopVars, connVars, ret, bootVars,
                   envVars>>

\* Line 152: go srv.handler(c).
GoHandler ==
    /\ srvPc = "go"
    /\ hpc' = [hpc EXCEPT ![c] = "start"]
    /\ srvPc' = "select"
    /\ UNCHANGED <<accept, c, accepted, AcceptReady, srvLog, stopVars,
                   handlerWaitGroup, wgAdds, locVars, iterVars, obsVars, ret, bootVars,
                   envVars, ctxVars>>

\* Lines 140-148: Accept returns an error; "timeout" is an *net.OpError that is
\* Timeout() and Temporary() (the 3 s accept timeout), "operr" any other
\* *net.OpError, "other" an error of another type. No handler is started.
AcceptErrors == {"timeout", "operr", "other"}

\* Line 142: the error is an *net.OpError.
IsOpError(ae) == ae \in {"timeout", "operr"}

\* Line 143: ope.Timeout() && ope.Temporary().
TimeoutAndTemporary(ae) == ae = "timeout"

\* Lines 142-148: whether the accept error is reported with Error().
AcceptLogsAll(ae) == TRUE

AcceptLogs(ae) == IF IsOpError(ae) THEN ~TimeoutAndTemporary(ae) ELSE TRUE

AcceptError(ae) ==
    /\ srvPc = "accept"
    /\ c' = 0
    /\ srvLog' = IF AcceptLogs(ae) THEN "SERVER Accept Error" ELSE "none"
    /\ srvPc' = "select"
    /\ UNCHANGED <<accept, accepted, AcceptReady, stopVars, handlerWaitGroup, wgAdds,
                   connVars, ret, bootVars, envVars>>

\* Line 138: the loop condition, for accept { ... }.
LoopNextAlways(acc) == "accept"

LoopNext(acc) == IF acc THEN "accept" ELSE "wait"

\* Lines 154-156: a sender is blocked on stopAccepting, so the select takes the
\* receive; the sender's StopAccepting() returns and accept becomes false.
SelectStopKeepAccepting ==
    /\ srvPc = "select"
    /\ stopAccepting > 0
    /\ stopAccepting' = stopAccepting - 1
    /\ stopReturned' = stopReturned + 1
    /\ accept' = accept
    /\ srvPc' = LoopNext(accept')
    /\ srvLog' = "none"
    /\ c' = 0
    /\ UNCHANGED <<accepted, AcceptReady, handlerWaitGroup, wgAdds, connVars, ret,
                   bootVars, envVars>>

SelectStop ==
    /\ srvPc = "select"
    /\ stopAccepting > 0
    /\ stopAccepting' = stopAccepting - 1
    /\ stopReturned' = stopReturned + 1
    /\ accept' = FALSE
    /\ srvPc' = LoopNext(accept')
    /\ srvLog' = "none"
    /\ c' = 0
    /\ UNCHANGED <<accepted, AcceptReady, handlerWaitGroup, wgAdds, connVars, ret,
                   bootVars, envVars>>

\* Lines 154, 157-158: no sender is waiting, the select takes default. The
\* iteration ends, and with it what it logged.
SelectDefault ==
    /\ srvPc = "select"
    /\ stopAccepting = 0
    /\ srvPc' = LoopNext(accept)
    /\ srvLog' = "none"
    /\ c' = 0
    /\ UNCHANGED <<accept, accepted, AcceptReady, stopVars, handlerWaitGroup, wgAdds,
                   connVars, ret, bootVars, envVars>>

\* Lines 160-163: handlerWaitGroup.Wait() returns when the counter is zero,
\* then serve returns nil, which is what ListenAndServe returns (line 85).
WaitReturnNoWait ==
    /\ srvPc = "wait"
    /\ srvPc' = "returned"
    /\ ret' = "nil"
    /\ bootErr' = ret'
    /\ UNCHANGED <<accept, c, accepted, AcceptReady, srvLog, stopVars,
                   handlerWaitGroup, wgAdds, connVars, listener, listenerFile, envVars>>

WaitReturnWaitsCallbacks ==
    /\ srvPc = "wait"
    /\ handlerWaitGroup = 0
    /\ cbRunning = 0
    /\ srvPc' = "returned"
    /\ ret' = "nil"
    /\ bootErr' = ret'
    /\ UNCHANGED <<accept, c, accepted, AcceptReady, srvLog, stopVars,
                   handlerWaitGroup, wgAdds, connVars, listener, listenerFile, envVars>>

WaitReturn ==
    /\ srvPc = "wait"
    /\ handlerWaitGroup = 0
    /\ srvPc' = "returned"
    /\ ret' = "nil"
    /\ bootErr' = ret'
    /\ UNCHANGED <<accept, c, accepted, AcceptReady, srvLog, stopVars,
                   handlerWaitGroup, wgAdds, connVars, listener, listenerFile, envVars>>

(***************************************************************************)
(* Server.StopAccepting, lines 120-122.                                    *)
(***************************************************************************)

\* Line 121: a caller enters StopAccepting() and blocks in the send on the
\* unbuffered channel until serve's select receives.
StopAccepting ==
    /\ stopAccepting + stopReturned < MaxStopCalls
    /\ stopAccepting' = stopAccepting + 1
    /\ UNCHANGED <<srvVars, stopReturned, handlerWaitGroup, wgAdds, connVars, envVars>>

(***************************************************************************)
(* The connection handler: Server.handler, lines 166-216, and its deferred *)
(* Server.connectionFinished, lines 229-232.                               *)
(***************************************************************************)

\* A PipelineStageStat (lines 187-190): Name, StartTime, EndTime. Ran is the
\* position of a pipeline stage in the order the pipeline ran its stages, 0
\* for the stages the server records.
Stage(name, ran, st, en) == [Name |-> name, Ran |-> ran, StartTime |-> st, EndTime |-> en]

\* Lines 187-190: pssInit, for a connection started at st, built at time t.
InitStageSwapped(st, t) == Stage("server.Init", 0, t, st)

InitStageFromRead(st, t) == Stage("server.Init", 0, t, t)

InitStage(st, t) == Stage("server.Init", 0, st, t)

\* Request.appendPipelineStage, startPipelineStage and finishPipelineStage:
\* append a record, append a record that starts at t, and end the last
\* record at t.
appendPipelineStage(seq, pss) == Append(seq, pss)

startPipelineStage(seq, name, t) == Append(seq, Stage(name, 0, t, 0))

finishPipelineStage(seq, t) == [seq EXCEPT ![Len(seq)].EndTime = t]

\* The time a sequence of stages takes.
RECURSIVE Sum(_)
Sum(ds) == IF ds = <<>> THEN 0 ELSE ds[1] + Sum(Tail(ds))

\* Pipeline.execute on a request whose records are seq, starting at time t:
\* the stages run one after the other, stage i takes ds[i] and appends its
\* record.
RECURSIVE execute(_, _, _)
execute(seq, t, ds) ==
    IF ds = <<>>
    THEN seq
    ELSE execute(appendPipelineStage(seq, Stage("pipeline", Len(seq), t, t + ds[1])),
                 t + ds[1], Tail(ds))

\* Lines 222-227: the number of callback goroutines requestFinished starts.
requestFinishedAlways(cfg) == 1

requestFinished(cfg) == IF cfg THEN 1 ELSE 0

\* What http.ReadRequest can return: a request, described by its Connection
\* header, with a nil error; or no request and an error. ErrUnexpectedEOF is
\* what ReadRequest reports when the peer has closed the stream.
Headers == {"Keep-Alive", ""}
ReadErrors == {"ErrUnexpectedEOF", "ErrMalformed"}

Request(h) == [err |-> "nil", Connection |-> h]
Failure(re) == [err |-> re, Connection |-> ""]

\* Number of requests asking for keep-alive that the peers have sent so far.
KeepAliveReads ==
    Cardinality({ki \in Conns \X (1..(MaxKeepAlive + 1)) :
                    /\ ki[2] <= Len(reads[ki[1]])
                    /\ reads[ki[1]][ki[2]] = Request("Keep-Alive")})

\* What Pipeline.execute can return: no response, or a response.
PipelineResults == {"nil", "200 OK"}

\* Line 178: the loop condition, for err == nil && keepAlive { ... }.
LoopCond(er, ka) == er = "nil" /\ ka

AfterIteration(er, ka) == IF LoopCond(er, ka) THEN "read" ELSE "finish"

\* Lines 167-169, 174-177: the handler starts, its deferred call is
\* registered and the read buffer is allocated.
HandlerStart(k) ==
    /\ hpc[k] = "start"
    /\ err' = [err EXCEPT ![k] = "nil"]
    /\ reqCount' = [reqCount EXCEPT ![k] = 0]
    /\ keepAlive' = [keepAlive EXCEPT ![k] = TRUE]
    /\ startTime' = [startTime EXCEPT ![k] = now]
    /\ hpc' = [hpc EXCEPT ![k] = AfterIteration(err'[k], keepAlive'[k])]
    /\ UNCHANGED <<srvVars, stopVars, handlerWaitGroup, wgAdds, iterVars, obsVars,
                   envVars, reqStart, stages, cbDispatched>>

\* Lines 167-173: bufio.NewReaderSize fails; the error is logged and the
\* handler returns, which runs the deferred connectionFinished.
HandlerBufFailNoDefer(k) ==
    /\ hpc[k] = "start"
    /\ err' = [err EXCEPT ![k] = "BufSizeError"]
    /\ errLog' = [errLog EXCEPT ![k] = Append(@, "Read buffer fail")]
    /\ startTime' = [startTime EXCEPT ![k] = now]
    /\ hpc' = [hpc EXCEPT ![k] = "done"]
    /\ UNCHANGED <<srvVars, stopVars, handlerWaitGroup, wgAdds, keepAlive, reqCount,
                   iterVars, reads, nExec, nWrite, closes, wgDones, envVars, reqStart,
                   stages, cbDispatched>>

HandlerBufFail(k) ==
    /\ hpc[k] = "start"
    /\ err' = [err EXCEPT ![k] = "BufSizeError"]
    /\ errLog' = [errLog EXCEPT ![k] = Append(@, "Read buffer fail")]
    /\ startTime' = [startTime EXCEPT ![k] = now]
    /\ hpc' = [hpc EXCEPT ![k] = "finish"]
    /\ UNCHANGED <<srvVars, stopVars, handlerWaitGroup, wgAdds, keepAlive, reqCount,
                   iterVars, reads, nExec, nWrite, closes, wgDones, envVars, reqStart,
                   stages, cbDispatched>>

\* Lines 180-182: keepAlive after a request whose Connection header is h.
KeepAliveAfterIgnoreHeader(ka, h) == ka

KeepAliveAfter(ka, h) == IF h # "Keep-Alive" THEN FALSE ELSE ka

\* Lines 179-191: a new iteration; ReadRequest returns a request, keepAlive is
\* updated, the request context is built, reqCount is incremented and the
\* server.Init stage is appended.
ReadRequestOk(k, h) ==
    /\ hpc[k] = "read"
    /\ h = "Keep-Alive" => KeepAliveReads < MaxKeepAlive
    /\ reads' = [reads EXCEPT ![k] = Append(@, Request(h))]
    /\ err' = [err EXCEPT ![k] = "nil"]
    /\ keepAlive' = [keepAlive EXCEPT ![k] = KeepAliveAfter(@, h)]
    /\ reqCount' = [reqCount EXCEPT ![k] = @ + 1]
    /\ res' = [res EXCEPT ![k] = "none"]
    /\ pipeRes' = [pipeRes EXCEPT ![k] = "none"]
    /\ written' = [written EXCEPT ![k] = "none"]
    /\ reqStart' = [reqStart EXCEPT ![k] = startTime[k]]
    /\ stages' = [stages EXCEPT ![k] =
                        appendPipelineStage(<<>>, InitStage(startTime[k], now))]
    /\ hpc' = [hpc EXCEPT ![k] = "exec"]
    /\ UNCHANGED <<srvVars, stopVars, handlerWaitGroup, wgAdds, nExec, nWrite, closes,
                   wgDones, errLog, envVars, startTime, cbDispatched>>

\* Line 210: whether a ReadRequest error is logged.
ShouldLogAnyError(re) == re # "EOF"

ShouldLog(re) == re # "ErrUnexpectedEOF"

\* Lines 179, 208-214: a new iteration; ReadRequest returns an error, which is
\* logged unless it is io.ErrUnexpectedEOF, and the loop condition then ends
\* the loop.
ReadRequestErrShared(k, re) ==
    /\ hpc[k] = "read"
    /\ reads' = [reads EXCEPT ![k] = Append(@, Failure(re))]
    /\ err' = [j \in Conns |-> re]
    /\ errLog' = [errLog EXCEPT ![k] = IF ShouldLog(re)
                                         THEN Append(@, "ERROR reading request")
                                         ELSE @]
    /\ res' = [res EXCEPT ![k] = "none"]
    /\ pipeRes' = [pipeRes EXCEPT ![k] = "none"]
    /\ written' = [written EXCEPT ![k] = "none"]
    /\ reqStart' = [reqStart EXCEPT ![k] = 0]
    /\ stages' = [stages EXCEPT ![k] = <<>>]
    /\ hpc' = [hpc EXCEPT ![k] = AfterIteration(err'[k], keepAlive[k])]
    /\ UNCHANGED <<srvVars, stopVars, handlerWaitGroup, wgAdds, keepAlive, reqCount,
                   nExec, nWrite, closes, wgDones, envVars, startTime, cbDispatched>>

ReadRequestErr(k, re) ==
    /\ hpc[k] = "read"
    /\ reads' = [reads EXCEPT ![k] = Append(@, Failure(re))]
    /\ err' = [err EXCEPT ![k] = re]
    /\ errLog' = [errLog EXCEPT ![k] = IF ShouldLog(re)
                                         THEN Append(@, "ERROR reading request")
                                         ELSE @]
    /\ res' = [res EXCEPT ![k] = "none"]
    /\ pipeRes' = [pipeRes EXCEPT ![k] = "none"]
    /\ written' = [written EXCEPT ![k] = "none"]
    /\ reqStart' = [reqStart EXCEPT ![k] = 0]
    /\ stages' = [stages EXCEPT ![k] = <<>>]
    /\ hpc' = [hpc EXCEPT ![k] = AfterIteration(err'[k], keepAlive[k])]
    /\ UNCHANGED <<srvVars, stopVars, handlerWaitGroup, wgAdds, keepAlive, reqCount,
                   nExec, nWrite, closes, wgDones, envVars, startTime, cbDispatched>>

\* Lines 193-195: the response to write for what the pipeline returned.
ResponseForNoDefault(r) == r

ResponseFor(r) == IF r = "nil" THEN "404 Not Found" ELSE r

\* Lines 193-195: Pipeline.execute is called with the request and returns r,
\* after running Len(ds) stages that take ds[1], ds[2], ... and each append
\* their record to the request.
HandlerExecuteAt(k, r, ds) ==
    /\ hpc[k] = "exec"
    /\ now + Sum(ds) <= MaxTime
    /\ pipeRes' = [pipeRes EXCEPT ![k] = r]
    /\ nExec' = [nExec EXCEPT ![k] = @ + 1]
    /\ res' = [res EXCEPT ![k] = ResponseFor(r)]
    /\ stages' = [stages EXCEPT ![k] = execute(@, now, ds)]
    /\ now' = now + Sum(ds)
    /\ hpc' = [hpc EXCEPT ![k] = "write"]
    /\ UNCHANGED <<srvVars, stopVars, handlerWaitGroup, wgAdds, locVars, written,
                   reads, nWrite, closes, wgDones, errLog, RequestDoneCallback,
                   cbRunning, startTime, reqStart, cbDispatched>>

\* The same with a pipeline that appends no stage.
HandlerExecute(k, r) == HandlerExecuteAt(k, r, <<>>)

\* Lines 197-207: the request body is closed, the response is written through
\* a fresh buffer and flushed, its body is closed, the stage and the request
\* are finished; then the loop condition is evaluated again.
\* The writing takes d; line 207 calls requestFinished, which starts the
\* completion callback in a goroutine of its own when one is configured.
HandlerWriteLater(k) ==
    /\ hpc[k] = "write"
    /\ hpc' = [hpc EXCEPT ![k] = AfterIteration(err[k], keepAlive[k])]
    /\ UNCHANGED <<srvVars, stopVars, handlerWaitGroup, wgAdds, locVars, iterVars,
                   obsVars, envVars, ctxVars>>

HandlerWriteAt(k, d) ==
    /\ hpc[k] = "write"
    /\ now + d <= MaxTime
    /\ written' = [written EXCEPT ![k] = res[k]]
    /\ nWrite' = [nWrite EXCEPT ![k] = @ + 1]
    /\ stages' = [stages EXCEPT ![k] =
            finishPipelineStage(startPipelineStage(@, "server.ResponseWrite", now),
                                now + d)]
    /\ now' = now + d
    /\ cbDispatched' = [cbDispatched EXCEPT ![k] = @ + requestFinished(RequestDoneCallback)]
    /\ cbRunning' = cbRunning + requestFinished(RequestDoneCallback)
    /\ hpc' = [hpc EXCEPT ![k] = AfterIteration(err[k], keepAlive[k])]
    /\ UNCHANGED <<srvVars, stopVars, handlerWaitGroup, wgAdds, locVars, res, pipeRes,
                   reads, nExec, closes, wgDones, errLog, RequestDoneCallback,
                   startTime, reqStart>>

\* The same when no time passes during the write.
HandlerWrite(k) == HandlerWriteAt(k, 0)

\* Line 230: the loop is left and the deferred connectionFinished closes the
\* connection.
ConnCloseSkipped(k) ==
    /\ hpc[k] = "finish"
    /\ res' = [res EXCEPT ![k] = "none"]
    /\ pipeRes' = [pipeRes EXCEPT ![k] = "none"]
    /\ written' = [written EXCEPT ![k] = "none"]
    /\ reqStart' = [reqStart EXCEPT ![k] = 0]
    /\ stages' = [stages EXCEPT ![k] = <<>>]
    /\ hpc' = [hpc EXCEPT ![k] = "closed"]
    /\ UNCHANGED <<srvVars, stopVars, handlerWaitGroup, wgAdds, locVars, obsVars,
                   envVars, startTime, cbDispatched>>

ConnClose(k) ==
    /\ hpc[k] = "finish"
    /\ closes' = [closes EXCEPT ![k] = @ + 1]
    /\ res' = [res EXCEPT ![k] = "none"]
    /\ pipeRes' = [pipeRes EXCEPT ![k] = "none"]
    /\ written' = [written EXCEPT ![k] = "none"]
    /\ reqStart' = [reqStart EXCEPT ![k] = 0]
    /\ stages' = [stages EXCEPT ![k] = <<>>]
    /\ hpc' = [hpc EXCEPT ![k] = "closed"]
    /\ UNCHANGED <<srvVars, stopVars, handlerWaitGroup, wgAdds, locVars, reads, nExec,
                   nWrite, wgDones, errLog, envVars, startTime, cbDispatched>>

\* Line 231: handlerWaitGroup.Done(), after which the goroutine ends.
WgDoneForgotten(k) ==
    /\ hpc[k] = "closed"
    /\ hpc' = [hpc EXCEPT ![k] = "done"]
    /\ UNCHANGED <<srvVars, stopVars, handlerWaitGroup, wgAdds, locVars, iterVars,
                   obsVars, envVars, ctxVars>>

WgDone(k) ==
    /\ hpc[k] = "closed"
    /\ handlerWaitGroup' = handlerWaitGroup - 1
    /\ wgDones' = [wgDones EXCEPT ![k] = @ + 1]
    /\ hpc' = [hpc EXCEPT ![k] = "done"]
    /\ UNCHANGED <<srvVars, stopVars, wgAdds, locVars, iterVars, reads, nExec, nWrite,
                   closes, errLog, envVars, ctxVars>>

Next ==
    \/ ServeReady
    \/ AcceptConn
    \/ GoHandler
    \/ \E ae \in AcceptErrors : AcceptError(ae)
    \/ SelectStop
    \/ SelectDefault
    \/ WaitReturn
    \/ StopAccepting
    \/ \E k \in Conns : HandlerStart(k)
    \/ \E k \in Conns : HandlerBufFail(k)
    \/ \E k \in Conns, h \in Headers : ReadRequestOk(k, h)
    \/ \E k \in Conns, re \in ReadErrors : ReadRequestErr(k, re)
    \/ \E k \in Conns, r \in PipelineResults : HandlerExecute(k, r)
    \/ \E k \in Conns : HandlerWrite(k)
    \/ \E k \in Conns : ConnClose(k)
    \/ \E k \in Conns : WgDone(k)

Spec == Init /\ [][Next]_vars

TypeOK ==
    /\ srvPc \in {"idle", "ready", "accept", "go", "select", "wait", "returned"}
    /\ accept \in BOOLEAN
    /\ c \in 0..MaxConns
    /\ accepted \in 0..MaxConns
    /\ AcceptReady \in 0..AcceptReadyCap
    /\ stopAccepting \in 0..MaxStopCalls
    /\ stopReturned \in 0..MaxStopCalls
    /\ handlerWaitGroup \in Int
    /\ hpc \in [Conns -> {"none", "start", "read", "exec", "write", "finish", "closed", "done"}]
    /\ keepAlive \in [Conns -> BOOLEAN]
    /\ reqCount \in [Conns -> Nat]

(***************************************************************************)
(* Shutdown under fair scheduling. Every Accept call returns and the       *)
(* accept loop keeps running; every dispatched handler keeps running to    *)
(* its end. Peers send one request without keep-alive, or close the        *)
(* stream. Callers of StopAccepting come when they like.                   *)
(***************************************************************************)

\* A step of serve(), lines 135-164.
ServeStep ==
    \/ ServeReady
    \/ AcceptConn
    \/ GoHandler
    \/ \E ae \in AcceptErrors : AcceptError(ae)
    \/ SelectStop
    \/ SelectDefault
    \/ WaitReturn

\* A step of the handler of connection k, lines 166-216 and 229-232.
LiveHandlerStep(k) ==
    \/ HandlerStart(k)
    \/ ReadRequestOk(k, "")
    \/ ReadRequestErr(k, "ErrUnexpectedEOF")
    \/ HandlerExecute(k, "200 OK")
    \/ HandlerWrite(k)
    \/ ConnClose(k)
    \/ WgDone(k)

LiveNext ==
    \/ ServeStep
    \/ StopAccepting
    \/ \E k \in Conns : LiveHandlerStep(k)

LiveSpec ==
    /\ Init
    /\ [][LiveNext]_vars
    /\ WF_vars(ServeStep)
    /\ \A k \in Conns : WF_vars(LiveHandlerStep(k))

(***************************************************************************)
(* Bootstrap: FdListen, socketListen, ListenAndServe, ListenAndServeTLS,   *)
(* lines 40-118. The calls are made while no accept loop runs on the       *)
(* server; bootErr is what the last completed call returned, "none" while  *)
(* ListenAndServe(TLS) is inside serve().                                  *)
(***************************************************************************)

\* Line 65: the listener as socketListen stores it, before line 72.
BoundListener == [base |-> "tcp", timeout |-> FALSE, tls |-> FALSE]

\* Lines 43-49: what net.FileListener makes of the descriptor: a TCP
\* listener, a listener of another kind, or an error.
FdKinds == {"tcp", "other", "notListener"}

FdListener(fk) ==
    CASE fk = "tcp" -> ReadyListener
      [] fk = "other" -> [base |-> "other", timeout |-> FALSE, tls |-> FALSE]
      [] fk = "notListener" -> NoListener

FdError(fk) ==
    CASE fk = "tcp" -> "nil"
      [] fk = "other" -> "Broken listener isn't TCP"
      [] fk = "notListener" -> "FileListener error"

\* Lines 40-52.
FdListen(fk) ==
    /\ srvPc \in {"idle", "returned"}
    /\ listenerFile' = "file"
    /\ listener' = FdListener(fk)
    /\ bootErr' = FdError(fk)
    /\ UNCHANGED <<srvPc, accept, c, accepted, AcceptReady, srvLog, ret, stopVars,
                   envVars, handlerWaitGroup, wgAdds, connVars>>

\* Lines 54-74: the step of socketListen that fails, or none.
SocketOutcomes == {"ok", "ResolveTCPAddr error", "ListenTCP error", "File error",
                   "SetNonblock error"}

\* Lines 54-74: the listener, the listener file and the error after
\* socketListen, from listener l and file f before it.
socketListen(so, l, f) ==
    CASE so = "ResolveTCPAddr error" -> [listener |-> l, listenerFile |-> f, err |-> so]
      [] so = "ListenTCP error" -> [listener |-> l, listenerFile |-> f, err |-> so]
      [] so = "File error" ->
            [listener |-> BoundListener, listenerFile |-> "nil", err |-> so]
      [] so = "SetNonblock error" ->
            [listener |-> BoundListener, listenerFile |-> "file", err |-> so]
      [] so = "ok" ->
            [listener |-> ReadyListener, listenerFile |-> "file", err |-> "nil"]

\* Lines 80-84 and 109-113: socketListen is called when there is no listener.
EnsureListener(so, l, f) ==
    IF l = NoListener
    THEN socketListen(so, l, f)
    ELSE [listener |-> l, listenerFile |-> f, err |-> "nil"]

\* Line 136: serve() is entered.
EnterServe ==
    /\ srvPc' = "ready"
    /\ accept' = TRUE
    /\ ret' = "none"
    /\ bootErr' = "none"

\* Lines 82, 106, 111: the call returns er without entering serve().
ReturnError(er) ==
    /\ bootErr' = er
    /\ UNCHANGED <<srvPc, accept, ret>>

\* Lines 76-86.
ListenAndServeIgnoreError(so) ==
    /\ srvPc \in {"idle", "returned"}
    /\ listener # NoListener => so = "ok"
    /\ LET r == EnsureListener(so, listener, listenerFile) IN
        /\ listener' = r.listener
        /\ listenerFile' = r.listenerFile
        /\ EnterServe
    /\ UNCHANGED <<c, accepted, AcceptReady, srvLog, stopVars, envVars,
                   handlerWaitGroup, wgAdds, connVars>>

ListenAndServe(so) ==
    /\ srvPc \in {"idle", "returned"}
    /\ listener # NoListener => so = "ok"
    /\ LET r == EnsureListener(so, listener, listenerFile) IN
        /\ listener' = r.listener
        /\ listenerFile' = r.listenerFile
        /\ IF r.err # "nil" THEN ReturnError(r.err) ELSE EnterServe
    /\ UNCHANGED <<c, accepted, AcceptReady, srvLog, stopVars, envVars,
                   handlerWaitGroup, wgAdds, connVars>>

\* Line 104: tls.LoadX509KeyPair succeeds or fails.
CertOutcomes == {"ok", "LoadX509KeyPair error"}

\* Lines 92-118.
ListenAndServeTLS(co, so) ==
    /\ srvPc \in {"idle", "returned"}
    /\ (co # "ok" \/ listener # NoListener) => so = "ok"
    /\ IF co # "ok"
       THEN /\ ReturnError(co)
            /\ UNCHANGED <<listener, listenerFile>>
       ELSE LET r == EnsureListener(so, listener, listenerFile) IN
            /\ listenerFile' = r.listenerFile
            /\ IF r.err # "nil"
               THEN /\ listener' = r.listener
                    /\ ReturnError(r.err)
               ELSE /\ listener' = [r.listener EXCEPT !.tls = TRUE]
                    /\ EnterServe
    /\ UNCHANGED <<c, accepted, AcceptReady, srvLog, stopVars, envVars,
                   handlerWaitGroup, wgAdds, connVars>>

\* Line 34: a caller that synchronizes on startup receives from AcceptReady.
RecvAcceptReady ==
    /\ AcceptReady > 0
    /\ AcceptReady' = AcceptReady - 1
    /\ UNCHANGED <<srvPc, accept, c, accepted, srvLog, ret, bootVars, stopVars,
                   envVars, handlerWaitGroup, wgAdds, connVars>>

\* A server built by NewServer, before any call on it.
BootInit ==
    /\ NewServer
    /\ srvPc = "idle"
    /\ accept = FALSE
    /\ listener = NoListener
    /\ listenerFile = "nil"
    /\ bootErr = "none"
    /\ RequestDoneCallback = FALSE

\* A step of the handler of connection k when the peer connects and closes
\* the stream.
BootHandlerStep(k) ==
    \/ HandlerStart(k)
    \/ ReadRequestErr(k, "ErrUnexpectedEOF")
    \/ ConnClose(k)
    \/ WgDone(k)

BootNext ==
    \/ \E fk \in FdKinds : FdListen(fk)
    \/ \E so \in SocketOutcomes : ListenAndServe(so)
    \/ \E co \in CertOutcomes, so \in SocketOutcomes : ListenAndServeTLS(co, so)
    \/ RecvAcceptReady
    \/ ServeStep
    \/ StopAccepting
    \/ \E k \in Conns : BootHandlerStep(k)

BootSpec == BootInit /\ [][BootNext]_vars

(***************************************************************************)
(* Stage timing. The clock time.Nanoseconds() advances between the steps   *)
(* of a handler and while the pipeline and the write run; it never goes    *)
(* back. The requests of the first connection are followed.                *)
(***************************************************************************)

\* The clock advances.
Tick ==
    /\ now < MaxTime
    /\ now' = now + 1
    /\ UNCHANGED <<srvVars, stopVars, RequestDoneCallback, cbRunning, handlerWaitGroup,
                   wgAdds, connVars>>

\* The times the stages of one pipeline run can take: at most MaxStages
\* stages, each taking 0 or 1.
StageRuns == UNION {[1..n -> 0..1] : n \in 0..MaxStages}

\* Lines 140-151 for the first connection.
AcceptFirst == accepted = 0 /\ AcceptConn

TimeNext ==
    \/ Tick
    \/ ServeReady
    \/ AcceptFirst
    \/ GoHandler
    \/ SelectDefault
    \/ \E k \in Conns : HandlerStart(k)
    \/ \E k \in Conns, h \in Headers : ReadRequestOk(k, h)
    \/ \E k \in Conns, re \in ReadErrors : ReadRequestErr(k, re)
    \/ \E k \in Conns, r \in PipelineResults, ds \in StageRuns : HandlerExecuteAt(k, r, ds)
    \/ \E k \in Conns, d \in 0..MaxTime : HandlerWriteAt(k, d)
    \/ \E k \in Conns : ConnClose(k)
    \/ \E k \in Conns : WgDone(k)

TimeSpec == Init /\ [][TimeNext]_vars

(***************************************************************************)
(* Completion callbacks. The pipeline may have a RequestDoneCallback; a    *)
(* callback goroutine started by requestFinished ends when FilterRequest   *)
(* returns.                                                                *)
(***************************************************************************)

\* Line 225: a callback goroutine ends.
CallbackFinish ==
    /\ cbRunning > 0
    /\ cbRunning' = cbRunning - 1
    /\ UNCHANGED <<srvVars, stopVars, now, RequestDoneCallback, handlerWaitGroup,
                   wgAdds, connVars>>

\* serve() has just been entered on a server whose pipeline has a completion
\* callback, or has none.
CbInit ==
    /\ NewServer
    /\ srvPc = "ready"
    /\ accept = TRUE
    /\ listener = ReadyListener
    /\ listenerFile = "file"
    /\ bootErr = "none"
    /\ RequestDoneCallback \in BOOLEAN

\* A step of the handler of connection k when the pipeline answers every
\* request.
CbHandlerStep(k) ==
    \/ HandlerStart(k)
    \/ \E h \in Headers : ReadRequestOk(k, h)
    \/ ReadRequestErr(k, "ErrUnexpectedEOF")
    \/ HandlerExecute(k, "200 OK")
    \/ HandlerWrite(k)
    \/ ConnClose(k)
    \/ WgDone(k)

CbNext ==
    \/ ServeReady
    \/ AcceptConn
    \/ GoHandler
    \/ SelectStop
    \/ SelectDefault
    \/ WaitReturn
    \/ StopAccepting
    \/ CallbackFinish
    \/ \E k \in Conns : CbHandlerStep(k)

CbSpec == CbInit /\ [][CbNext]_vars

(***************************************************************************)
(* Vocabulary of the properties.                                           *)
(***************************************************************************)

\* The handler of k has been started and has not finished.
Running(k) == hpc[k] \notin {"none", "done"}

\* The handler of k has left its request loop.
LeftLoop(k) == hpc[k] \in {"finish", "closed", "done"}

\* Requests that ReadRequest has delivered on k.
Parsed(k) == Cardinality({i \in 1..Len(reads[k]) : reads[k][i].err = "nil"})

LastRead(k) == reads[k][Len(reads[k])]

ReadFailed(k) == Len(reads[k]) > 0 /\ LastRead(k).err # "nil"

BufFailed(k) == err[k] = "BufSizeError"

\* The state of connection k and of its handler.
ConnState(k) ==
    <<hpc[k], err[k], keepAlive[k], reqCount[k], res[k], pipeRes[k], written[k],
      reads[k], nExec[k], nWrite[k], closes[k], wgDones[k], errLog[k],
      startTime[k], reqStart[k], stages[k], cbDispatched[k]>>

\* A step that starts a handler.
Dispatch == \E k \in Conns : hpc[k] = "none" /\ hpc'[k] # "none"

(***************************************************************************)
(* C1. Graceful drain: serve() has returned only if the WaitGroup counter  *)
(* is zero and every handler it started has closed its connection and      *)
(* finished; no handler is still in its request loop.                      *)
(***************************************************************************)
C1_GracefulDrain ==
    srvPc = "returned" =>
        /\ handlerWaitGroup = 0
        /\ \A k \in Conns :
            /\ ~Running(k)
            /\ k <= accepted => hpc[k] = "done" /\ closes[k] = 1 /\ wgDones[k] = 1

\* serve() has returned after a handler that served a request has finished.
C1_Witness ==
    /\ srvPc = "returned"
    /\ \E k \in Conns : hpc[k] = "done" /\ nWrite[k] > 0

(***************************************************************************)
(* C2. Once the accept loop has received the shutdown signal (accept is    *)
(* false) it makes no Accept call, starts no handler and increments the    *)
(* WaitGroup counter no more.                                              *)
(***************************************************************************)
C2_NoAcceptAfterSignal ==
    [][~accept =>
        /\ ~AcceptConn
        /\ ~(\E ae \in AcceptErrors : AcceptError(ae))
        /\ ~Dispatch
        /\ wgAdds' = wgAdds
        /\ handlerWaitGroup' <= handlerWaitGroup]_vars

\* The loop has stopped with a connection still on offer and a handler
\* still running: the drain wait is in progress.
C2_Witness ==
    /\ ~accept
    /\ srvPc = "wait"
    /\ accepted < MaxConns
    /\ \E k \in Conns : Running(k)

(***************************************************************************)
(* C3 as stated. Once StopAccepting has been invoked, whether or not the   *)
(* loop has received the signal, no connection is accepted and no handler  *)
(* is started.                                                             *)
(***************************************************************************)
C3_NoDispatchAfterRequest ==
    [][stopAccepting + stopReturned > 0 => accepted' = accepted /\ ~Dispatch]_vars

(***************************************************************************)
(* C3 as amended. Once a StopAccepting call has returned, which it does    *)
(* when the loop receives its signal, no connection is accepted and no     *)
(* handler is started.                                                     *)
(***************************************************************************)
C3_NoDispatchAfterStopReturned ==
    [][stopReturned > 0 => accepted' = accepted /\ ~Dispatch]_vars

\* A StopAccepting call has returned while a connection was still on offer,
\* after the loop had accepted another one.
C3_Witness ==
    /\ stopReturned > 0
    /\ accepted > 0
    /\ accepted < MaxConns

(***************************************************************************)
(* C4. The WaitGroup counter is incremented once for every accepted        *)
(* connection, before its handler starts, and decremented once when the    *)
(* handler exits, on every exit path. So the counter is never negative,    *)
(* equals the number of accepted connections whose handler has not         *)
(* finished, and is zero once all of them have finished.                   *)
(***************************************************************************)
C4_CounterMatchesHandlers ==
    /\ handlerWaitGroup >= 0
    /\ handlerWaitGroup = Cardinality({k \in Conns : k <= accepted /\ hpc[k] # "done"})
    /\ \A k \in Conns :
        /\ wgAdds[k] = IF k <= accepted THEN 1 ELSE 0
        /\ wgDones[k] = IF hpc[k] = "done" THEN 1 ELSE 0
        /\ hpc[k] # "none" => wgAdds[k] = 1
    /\ (\A k \in Conns : k <= accepted => hpc[k] = "done") => handlerWaitGroup = 0

\* All connections have closed, one on the read-buffer failure path and one
\* after serving requests, and the counter is back at zero.
C4_Witness ==
    /\ accepted = MaxConns
    /\ \A k \in Conns : hpc[k] = "done"
    /\ \E k \in Conns : BufFailed(k)
    /\ \E k \in Conns : nWrite[k] > 0
    /\ handlerWaitGroup = 0

(***************************************************************************)
(* C5. Every accepted connection is closed exactly once on every exit path *)
(* of its handler: never while the handler is in its loop, never twice,    *)
(* and before the handler's decrement of the counter.                      *)
(***************************************************************************)
C5_ClosedExactlyOnce ==
    \A k \in Conns :
        /\ closes[k] = IF hpc[k] \in {"closed", "done"} THEN 1 ELSE 0
        /\ wgDones[k] > 0 => closes[k] = 1
        /\ LeftLoop(k) =>
            \/ BufFailed(k)
            \/ ReadFailed(k)
            \/ Len(reads[k]) > 0 /\ LastRead(k) = Request("")

\* One connection is closed and not yet counted down after a parse error,
\* another has finished after its last request.
C5_Witness ==
    \E k, j \in Conns :
        /\ hpc[k] = "closed" /\ closes[k] = 1 /\ wgDones[k] = 0
        /\ ReadFailed(k) /\ LastRead(k).err = "ErrMalformed"
        /\ hpc[j] = "done" /\ closes[j] = 1
        /\ Len(reads[j]) > 0 /\ LastRead(j) = Request("")

C7_Sequential ==
    \A k \in Conns :
        /\ nWrite[k] <= nExec[k]
        /\ nExec[k] <= Parsed(k)
        /\ Parsed(k) - nWrite[k] \in {0, 1}
        /\ hpc[k] = "read" => nExec[k] = Parsed(k) /\ nWrite[k] = Parsed(k)
        /\ Parsed(k) - nWrite[k] = 1 => hpc[k] \in {"exec", "write"}

\* The handler is about to read the second request of a connection, the
\* first one answered.
C7_Witness ==
    \E k \in Conns : hpc[k] = "read" /\ Parsed(k) = 1 /\ nWrite[k] = 1

(***************************************************************************)
(* C8. Every parsed request is given to the pipeline once and answered     *)
(* once: with the pipeline's response when there is one, with "404 Not     *)
(* Found" when the pipeline returns none.                                  *)
(***************************************************************************)
C8_ExactlyOneResponse ==
    \A k \in Conns :
        /\ nExec[k] = Parsed(k) - (IF hpc[k] = "exec" THEN 1 ELSE 0)
        /\ nWrite[k] = Parsed(k) - (IF hpc[k] \in {"exec", "write"} THEN 1 ELSE 0)
        /\ written[k] # "none" =>
            written[k] = IF pipeRes[k] = "nil" THEN "404 Not Found" ELSE pipeRes[k]
        /\ (hpc[k] \in {"read", "finish"} /\ Len(reads[k]) > 0 /\ LastRead(k).err = "nil") =>
            /\ pipeRes[k] \in PipelineResults
            /\ written[k] # "none"

\* One connection has just been answered 404 for a request the pipeline
\* gave no response to, another with the pipeline's own response.
C8_Witness ==
    \E k, j \in Conns :
        /\ pipeRes[k] = "nil" /\ written[k] = "404 Not Found"
        /\ pipeRes[j] = "200 OK" /\ written[j] = "200 OK"

(***************************************************************************)
(* C9. A ReadRequest failure ends the loop of its connection with no       *)
(* pipeline call and no response for the failed read; it is logged unless  *)
(* it reports that the peer closed the stream.                             *)
(***************************************************************************)
C9_ParseFailure ==
    \A k \in Conns :
        ReadFailed(k) =>
            /\ LeftLoop(k)
            /\ nExec[k] = Len(reads[k]) - 1
            /\ nWrite[k] = Len(reads[k]) - 1
            /\ errLog[k] = IF LastRead(k).err = "ErrUnexpectedEOF"
                           THEN <<>>
                           ELSE <<"ERROR reading request">>

\* One handler has finished on a closed stream without a log line, another
\* on a malformed request with one.
C9_Witness ==
    \E k, j \in Conns :
        /\ hpc[k] = "done" /\ ReadFailed(k) /\ LastRead(k).err = "ErrUnexpectedEOF"
        /\ errLog[k] = <<>>
        /\ hpc[j] = "done" /\ ReadFailed(j) /\ LastRead(j).err = "ErrMalformed"
        /\ errLog[j] = <<"ERROR reading request">>

(***************************************************************************)
(* C10. Connection isolation: a step of a handler that has failed (read    *)
(* error or read-buffer failure) changes nothing of any other connection   *)
(* or handler, nor of the accept loop, except the WaitGroup counter; and   *)
(* a handler leaves its loop only for a failure or a last request of its   *)
(* own connection.                                                         *)
(***************************************************************************)
C10_Isolation ==
    [][/\ \A k \in Conns :
            (ConnState(k)' # ConnState(k) /\ err'[k] # "nil") =>
                /\ \A j \in Conns \ {k} : ConnState(j)' = ConnState(j)
                /\ srvVars' = srvVars
                /\ stopVars' = stopVars
       /\ \A k \in Conns :
            LeftLoop(k)' =>
                \/ BufFailed(k)'
                \/ ReadFailed(k)'
                \/ Len(reads'[k]) > 0 /\ LastRead(k)' = Request("")]_vars

\* The first connection ended on a malformed request; the second one,
\* accepted by the same loop, had every request answered and closed
\* normally.
C10_Witness ==
    /\ MaxConns >= 2
    /\ hpc[1] = "done" /\ ReadFailed(1) /\ LastRead(1).err = "ErrMalformed"
    /\ hpc[2] = "done" /\ err[2] = "nil"
    /\ Len(reads[2]) = MaxKeepAlive + 1
    /\ nWrite[2] = MaxKeepAlive + 1
    /\ closes[2] = 1

(***************************************************************************)
(* C11. Accept errors never end the accept loop. When Accept returns an    *)
(* error no handler is started and the WaitGroup counter is unchanged; an  *)
(* error that is a timeout and temporary is not logged, any other error    *)
(* is logged; the loop goes on to the shutdown check and, when no signal   *)
(* is waiting there, to the next Accept. The loop stops accepting only in  *)
(* a step that receives the shutdown signal.                               *)
(***************************************************************************)
C11_AcceptErrorsContinue ==
    [][/\ \A ae \in AcceptErrors :
            AcceptError(ae) =>
                /\ ~Dispatch
                /\ hpc' = hpc
                /\ handlerWaitGroup' = handlerWaitGroup /\ wgAdds' = wgAdds
                /\ srvLog' = IF ae = "timeout" THEN "none"
                                               ELSE "SERVER Accept Error"
                /\ accept' = accept
                /\ srvPc' = "select"
       /\ (srvPc = "select" /\ c = 0 /\ stopAccepting = 0 /\ srvPc' # srvPc) =>
                srvPc' = "accept"
       /\ (accept /\ ~accept') => stopReturned' = stopReturned + 1
       /\ (srvPc \in {"accept", "go", "select"} /\ srvPc' \in {"wait", "returned"}) =>
                /\ stopReturned' = stopReturned + 1
                /\ ~accept']_vars

\* Accept has returned an error that was logged while a handler of an
\* earlier connection is running and the loop is still accepting.
C11_Witness ==
    /\ srvPc = "select" /\ c = 0
    /\ srvLog = "SERVER Accept Error"
    /\ accept
    /\ \E k \in Conns : Running(k)

(***************************************************************************)
(* C12. StopAccepting is idempotent: once the accept loop has received a   *)
(* shutdown signal and stopped, a further StopAccepting call completes     *)
(* and does not leave its caller blocked. After the loop has stopped,      *)
(* nothing receives from stopAccepting any more, so a caller that is in    *)
(* the send then stays in it; the property says there is no such caller.   *)
(***************************************************************************)
C12_StopAcceptingIdempotent ==
    (srvPc \in {"wait", "returned"} /\ stopReturned > 0) => stopAccepting = 0

SocketErrors == SocketOutcomes \ {"ok"}
AcquisitionErrors == SocketErrors \cup {FdError(fk) : fk \in FdKinds \ {"tcp"}}

\* A step in which a bootstrap call returns er without entering the accept
\* loop: no accept-ready signal, no Accept, no handler.
Aborted(er) ==
    /\ bootErr' = er
    /\ srvPc' = srvPc /\ srvPc' \in {"idle", "returned"}
    /\ AcceptReady' = AcceptReady
    /\ accepted' = accepted /\ c' = c
    /\ hpc' = hpc /\ ~Dispatch
    /\ handlerWaitGroup' = handlerWaitGroup

(***************************************************************************)
(* C14. Startup-fatal errors abort startup: when address resolution, bind, *)
(* descriptor extraction or, in TLS mode, certificate/key loading fails,   *)
(* ListenAndServe / ListenAndServeTLS returns that error without entering  *)
(* the accept loop (no accept-ready signal, no Accept, no dispatch); a     *)
(* credential failure in TLS mode happens before any socket is bound and   *)
(* leaves the listener as it was. The accept loop is entered only by a     *)
(* call in which nothing failed.                                           *)
(***************************************************************************)
C14_StartupErrorsAbort ==
    [][/\ \A so \in SocketErrors :
            (/\ listener = NoListener
             /\ ListenAndServe(so) \/ ListenAndServeTLS("ok", so)) => Aborted(so)
       /\ ListenAndServeTLS("LoadX509KeyPair error", "ok") =>
            /\ Aborted("LoadX509KeyPair error")
            /\ listener' = listener /\ listenerFile' = listenerFile
       /\ (srvPc \in {"idle", "returned"} /\ srvPc' \notin {"idle", "returned"}) =>
            /\ srvPc' = "ready"
            /\ bootErr' = "none"
            /\ listener' # NoListener]_vars

\* On a fresh server ListenAndServe has returned the error of l.File():
\* nothing was signalled, accepted or dispatched.
C14_Witness ==
    /\ bootErr = "File error"
    /\ srvPc = "idle"
    /\ AcceptReady = 0 /\ accepted = 0
    /\ \A k \in Conns : hpc[k] = "none"

(***************************************************************************)
(* C15. On every serve() invocation the accept-ready signal is emitted     *)
(* once, before the first Accept, and emitting it is non-blocking: when    *)
(* serve() is about to send on AcceptReady the send can complete, also     *)
(* when a previous ready signal is still in the capacity-one channel.      *)
(***************************************************************************)
C15_ReadySignalNonBlocking ==
    srvPc = "ready" => AcceptReady < AcceptReadyCap

(***************************************************************************)
(* C20. A failed listener acquisition leaves the server without a          *)
(* listener: when FdListen or socketListen has returned an error, the      *)
(* listener field is unset.                                                *)
(***************************************************************************)
C20_FailedAcquisitionLeavesNoListener ==
    bootErr \in AcquisitionErrors => listener = NoListener

\* The request context of the current iteration of k has been completed:
\* its response is written and finishRequest has been called.
Completed(k) == written[k] # "none"

\* The handler of k reads a request in this step.
ReadsRequest(k) == Len(reads'[k]) = Len(reads[k]) + 1 /\ LastRead(k)'.err = "nil"

C17_RequestDone ==
    [][\A k \in Conns :
        /\ nWrite'[k] # nWrite[k] =>
            /\ cbDispatched'[k] = cbDispatched[k] + (IF RequestDoneCallback THEN 1 ELSE 0)
            /\ cbRunning' = cbRunning + (IF RequestDoneCallback THEN 1 ELSE 0)
        /\ cbDispatched'[k] # cbDispatched[k] =>
            /\ RequestDoneCallback
            /\ cbDispatched'[k] = cbDispatched[k] + 1
            /\ nWrite'[k] = nWrite[k] + 1
            /\ res[k] # "none" /\ written'[k] = res[k]
            /\ LET s == stages'[k]
               IN  /\ s[Len(s)].Name = "server.ResponseWrite"
                   /\ s[Len(s)].EndTime = now'
        /\ (cbRunning > 0 /\ hpc[k] = "read") =>
            /\ ENABLED ReadRequestOk(k, "")
            /\ ENABLED ReadRequestErr(k, "ErrUnexpectedEOF")
        /\ (cbRunning > 0 /\ hpc[k] = "finish") => ENABLED ConnClose(k)]_vars

\* A handler has served two requests of a keep-alive connection and closed
\* it while both callbacks it dispatched are still running.
C17_Witness ==
    /\ RequestDoneCallback
    /\ \E k \in Conns :
        /\ hpc[k] = "closed"
        /\ nWrite[k] = 2
        /\ cbDispatched[k] = 2
    /\ cbRunning = 2

(***************************************************************************)
(* C18. For every request served on a connection, also the second and      *)
(* later requests of a keep-alive connection, the server.Init stage starts *)
(* at the connection's start timestamp, taken once when the handler        *)
(* starts, and ends at the time the request is read; the request context   *)
(* is created with the connection's start timestamp too.                   *)
(***************************************************************************)
C18_InitStageFromConnectionStart ==
    [][\A k \in Conns :
        /\ startTime'[k] # startTime[k] => (hpc[k] = "start" /\ startTime'[k] = now)
        /\ ReadsRequest(k) =>
            /\ stages'[k] = <<[Name |-> "server.Init", Ran |-> 0,
                               StartTime |-> startTime[k], EndTime |-> now]>>
            /\ reqStart'[k] = startTime[k]]_vars

\* The second request of a keep-alive connection has been read two ticks or
\* more after the handler started; its server.Init stage starts at the
\* connection's start.
C18_Witness ==
    \E k \in Conns :
        /\ hpc[k] = "exec"
        /\ Parsed(k) = 2
        /\ now >= startTime[k] + 2
        /\ stages[k][1].StartTime = startTime[k]
        /\ stages[k][1].EndTime = now
        /\ reqStart[k] = startTime[k]

(***************************************************************************)
(* C19. Request-done callbacks are not counted in the WaitGroup: the drain *)
(* wait covers connection handlers only. When the loop has stopped and     *)
(* every handler has finished, the counter is zero and serve() can return, *)
(* whatever callbacks are still running.                                   *)
(***************************************************************************)
C19_CallbacksNotCounted ==
    (srvPc = "wait" /\ \A k \in Conns : ~Running(k)) =>
        /\ handlerWaitGroup = 0
        /\ ENABLED WaitReturn

\* serve() has returned while a callback dispatched by a finished handler is
\* still running.
C19_Witness ==
    /\ srvPc = "returned"
    /\ cbRunning > 0
    /\ \E k \in Conns : hpc[k] = "done" /\ cbDispatched[k] > 0

====
